---- MODULE Spec2Model ----
(***************************************************************************)
(* Model of package portrange (ports.go): the PortRange value type, its    *)
(* validating constructor and the interval operations Overlaps, Adjacent,  *)
(* Overlap, MergeWith and EntirelyLessThan.                                *)
(*                                                                         *)
(* A PortRange lives behind a pointer.  The model keeps two pointer        *)
(* variables (Refs), the set of those that point to an allocated struct    *)
(* (alloc) and the structs themselves (heap).  Each action is one call of  *)
(* one exported function; the call, its arguments, its results and the     *)
(* heap before the call are recorded so that properties can relate them.   *)
(***************************************************************************)
EXTENDS Integers, FiniteSets

VARIABLES heap, alloc, old, op, recv, arg, input, ret, made, err

vars == <<heap, alloc, old, op, recv, arg, input, ret, made, err>>

(***************************************************************************)
(* Program constants.                                                      *)
(***************************************************************************)
ProtoInvalid == 0
ProtoTcp == 6
ProtoUdp == 17

\* Largest value of a uint16 (minPort, maxPort) and of a uint8 (proto).
MaxPort == 65535
MaxProto == 255

ErrBadRange == "Bad port range"
ErrBadProto == "Bad protocol"
ErrDisjointRanges == "Disjoint port ranges"
\* The nil error and the nil pointer.
NoErr == "nil"
NilRef == "nil"

(***************************************************************************)
(* Bounds of the model: port numbers are drawn from the bottom and from    *)
(* the top of the 16-bit port space, at its true width.                    *)
(***************************************************************************)
LowPorts == 2
HighPorts == 0

PortValues == (0..LowPorts) \cup ((MaxPort - HighPorts)..MaxPort)

\* Protocol tags handed to New: the two recognised ones, their neighbours,
\* the invalid sentinel and the largest uint8.
ProtoInputs == {ProtoInvalid, ProtoTcp - 1, ProtoTcp, ProtoTcp + 1,
                ProtoUdp - 1, ProtoUdp, ProtoUdp + 1, MaxProto}

\* Protocol tags of struct literals written without New.
ProtoLiterals == {ProtoInvalid, ProtoTcp, ProtoUdp}

Refs == {"a", "b"}

\* type PortRange struct; its zero value.
PortRange(minPort, maxPort, proto) ==
    [minPort |-> minPort, maxPort |-> maxPort, proto |-> proto]

ZeroRange == PortRange(0, 0, 0)

\* uint16 arithmetic wraps around.
U16(x) == x % (MaxPort + 1)

(***************************************************************************)
(* The functions of ports.go.                                              *)
(***************************************************************************)
\* Validate with the protocol looked at before the bounds.
ValidateProtoFirst(p) ==
    IF p.proto # ProtoTcp /\ p.proto # ProtoUdp THEN ErrBadProto
    ELSE IF p.minPort = 0 \/ p.maxPort = 0 THEN ErrBadRange
    ELSE IF p.minPort > p.maxPort THEN ErrBadRange
    ELSE NoErr

Validate(p) ==
    IF p.minPort = 0 \/ p.maxPort = 0 THEN ErrBadRange
    ELSE IF p.minPort > p.maxPort THEN ErrBadRange
    ELSE IF p.proto # ProtoTcp /\ p.proto # ProtoUdp THEN ErrBadProto
    ELSE NoErr

New(minPort, maxPort, proto) ==
    LET p == PortRange(minPort, maxPort, proto)
        e == Validate(p)
    IN  IF e # NoErr THEN [ok |-> FALSE, p |-> ZeroRange, err |-> e]
        ELSE [ok |-> TRUE, p |-> p, err |-> NoErr]

\* Overlaps with >= for >: ranges sharing only an end port count as disjoint.
OverlapsStrict(p, o) ==
    IF p.proto # o.proto THEN FALSE
    ELSE IF p.minPort >= o.maxPort THEN FALSE
    ELSE IF o.minPort >= p.maxPort THEN FALSE
    ELSE TRUE

\* Overlaps without its second comparison.
OverlapsOneSided(p, o) ==
    IF p.proto # o.proto THEN FALSE
    ELSE IF p.minPort > o.maxPort THEN FALSE
    ELSE TRUE

Overlaps(p, o) ==
    IF p.proto # o.proto THEN FALSE
    ELSE IF p.minPort > o.maxPort THEN FALSE
    ELSE IF o.minPort > p.maxPort THEN FALSE
    ELSE TRUE

\* Adjacent without its protocol comparison.
AdjacentNoProtoCheck(p, o) ==
    IF Overlaps(p, o) THEN FALSE
    ELSE IF U16(p.maxPort + 1) = o.minPort THEN TRUE
    ELSE IF U16(o.maxPort + 1) = p.minPort THEN TRUE
    ELSE FALSE

Adjacent(p, o) ==
    IF p.proto # o.proto THEN FALSE
    ELSE IF Overlaps(p, o) THEN FALSE
    ELSE IF U16(p.maxPort + 1) = o.minPort THEN TRUE
    ELSE IF U16(o.maxPort + 1) = p.minPort THEN TRUE
    ELSE FALSE

\* Overlap with both comparisons inverted: the hull instead of the intersection.
OverlapInverted(h, p, o) ==
    IF ~Overlaps(h[p], h[o]) THEN [heap |-> h, err |-> ErrDisjointRanges]
    ELSE LET minPort == IF h[o].minPort < h[p].minPort
                        THEN h[o].minPort ELSE h[p].minPort
             maxPort == IF h[o].maxPort > h[p].maxPort
                        THEN h[o].maxPort ELSE h[p].maxPort
             h1 == [h EXCEPT ![o].minPort = minPort]
             h2 == [h1 EXCEPT ![o].maxPort = maxPort]
         IN  [heap |-> h2, err |-> NoErr]

\* Overlap without its early return for disjoint ranges.
OverlapUnchecked(h, p, o) ==
    LET minPort == IF h[o].minPort > h[p].minPort
                   THEN h[o].minPort ELSE h[p].minPort
        maxPort == IF h[o].maxPort < h[p].maxPort
                   THEN h[o].maxPort ELSE h[p].maxPort
        h1 == [h EXCEPT ![o].minPort = minPort]
        h2 == [h1 EXCEPT ![o].maxPort = maxPort]
    IN  [heap |-> h2, err |-> NoErr]

\* p and o are pointers into the heap h (they may be the same pointer).
Overlap(h, p, o) ==
    IF ~Overlaps(h[p], h[o]) THEN [heap |-> h, err |-> ErrDisjointRanges]
    ELSE LET minPort == IF h[o].minPort > h[p].minPort
                        THEN h[o].minPort ELSE h[p].minPort
             maxPort == IF h[o].maxPort < h[p].maxPort
                        THEN h[o].maxPort ELSE h[p].maxPort
             h1 == [h EXCEPT ![o].minPort = minPort]
             h2 == [h1 EXCEPT ![o].maxPort = maxPort]
         IN  [heap |-> h2, err |-> NoErr]

\* MergeWith that merges overlapping ranges only.
MergeWithOverlapOnly(h, p, o) ==
    IF Overlaps(h[p], h[o])
    THEN LET h1 == IF h[o].minPort > h[p].minPort
                   THEN [h EXCEPT ![o].minPort = h[p].minPort] ELSE h
             h2 == IF h1[o].maxPort < h1[p].maxPort
                   THEN [h1 EXCEPT ![o].maxPort = h1[p].maxPort] ELSE h1
         IN  [heap |-> h2, err |-> NoErr]
    ELSE [heap |-> h, err |-> ErrDisjointRanges]

MergeWith(h, p, o) ==
    IF Overlaps(h[p], h[o]) \/ Adjacent(h[p], h[o])
    THEN LET h1 == IF h[o].minPort > h[p].minPort
                   THEN [h EXCEPT ![o].minPort = h[p].minPort] ELSE h
             h2 == IF h1[o].maxPort < h1[p].maxPort
                   THEN [h1 EXCEPT ![o].maxPort = h1[p].maxPort] ELSE h1
         IN  [heap |-> h2, err |-> NoErr]
    ELSE [heap |-> h, err |-> ErrDisjointRanges]

\* EntirelyLessThan with <= for < between the protocols.
EntirelyLessThanProtoLeq(p, o) ==
    IF p.proto <= o.proto THEN TRUE
    ELSE IF Overlaps(p, o) THEN FALSE
    ELSE IF p.maxPort < o.minPort THEN TRUE
    ELSE FALSE

EntirelyLessThan(p, o) ==
    IF p.proto < o.proto THEN TRUE
    ELSE IF Overlaps(p, o) THEN FALSE
    ELSE IF p.maxPort < o.minPort THEN TRUE
    ELSE FALSE

(***************************************************************************)
(* State machine.                                                          *)
(***************************************************************************)
NoInput == <<0, 0, 0>>

\* No range exists yet: every range will come from New.
Init ==
    /\ heap = [r \in Refs |-> ZeroRange]
    /\ alloc = {}
    /\ old = heap
    /\ op = "init"
    /\ recv = NilRef
    /\ arg = NilRef
    /\ input = NoInput
    /\ ret = FALSE
    /\ made = NilRef
    /\ err = NoErr

\* Ranges written as struct literals (&PortRange{min, max, proto}), as the
\* tests of the package do: any field values, validated by nobody.
InitLiteral ==
    /\ alloc \in SUBSET Refs
    /\ heap \in [Refs -> [minPort : PortValues, maxPort : PortValues,
                          proto : ProtoLiterals] \cup {ZeroRange}]
    /\ \A r \in Refs \ alloc : heap[r] = ZeroRange
    /\ old = heap
    /\ op = "init"
    /\ recv = NilRef
    /\ arg = NilRef
    /\ input = NoInput
    /\ ret = FALSE
    /\ made = NilRef
    /\ err = NoErr

\* r, err := New(minPort, maxPort, proto) for a pointer variable r not yet set.
DoNew(r, minPort, maxPort, proto) ==
    /\ r \notin alloc
    /\ LET n == New(minPort, maxPort, proto)
       IN  /\ heap' = IF n.ok THEN [heap EXCEPT ![r] = n.p] ELSE heap
           /\ alloc' = IF n.ok THEN alloc \cup {r} ELSE alloc
           /\ made' = IF n.ok THEN r ELSE NilRef
           /\ err' = n.err
    /\ old' = heap
    /\ op' = "New"
    /\ recv' = NilRef
    /\ arg' = NilRef
    /\ input' = <<minPort, maxPort, proto>>
    /\ ret' = FALSE

DoValidate(p) ==
    /\ p \in alloc
    /\ err' = Validate(heap[p])
    /\ old' = heap
    /\ op' = "Validate"
    /\ recv' = p
    /\ arg' = NilRef
    /\ input' = NoInput
    /\ ret' = FALSE
    /\ made' = NilRef
    /\ UNCHANGED <<heap, alloc>>

DoOverlaps(p, o) ==
    /\ p \in alloc /\ o \in alloc
    /\ ret' = Overlaps(heap[p], heap[o])
    /\ old' = heap
    /\ op' = "Overlaps"
    /\ recv' = p
    /\ arg' = o
    /\ input' = NoInput
    /\ made' = NilRef
    /\ err' = NoErr
    /\ UNCHANGED <<heap, alloc>>

DoAdjacent(p, o) ==
    /\ p \in alloc /\ o \in alloc
    /\ ret' = Adjacent(heap[p], heap[o])
    /\ old' = heap
    /\ op' = "Adjacent"
    /\ recv' = p
    /\ arg' = o
    /\ input' = NoInput
    /\ made' = NilRef
    /\ err' = NoErr
    /\ UNCHANGED <<heap, alloc>>

DoOverlap(p, o) ==
    /\ p \in alloc /\ o \in alloc
    /\ LET res == Overlap(heap, p, o)
       IN  /\ heap' = res.heap
           /\ err' = res.err
    /\ old' = heap
    /\ op' = "Overlap"
    /\ recv' = p
    /\ arg' = o
    /\ input' = NoInput
    /\ ret' = FALSE
    /\ made' = NilRef
    /\ UNCHANGED alloc

DoMergeWith(p, o) ==
    /\ p \in alloc /\ o \in alloc
    /\ LET res == MergeWith(heap, p, o)
       IN  /\ heap' = res.heap
           /\ err' = res.err
    /\ old' = heap
    /\ op' = "MergeWith"
    /\ recv' = p
    /\ arg' = o
    /\ input' = NoInput
    /\ ret' = FALSE
    /\ made' = NilRef
    /\ UNCHANGED alloc

DoEntirelyLessThan(p, o) ==
    /\ p \in alloc /\ o \in alloc
    /\ ret' = EntirelyLessThan(heap[p], heap[o])
    /\ old' = heap
    /\ op' = "EntirelyLessThan"
    /\ recv' = p
    /\ arg' = o
    /\ input' = NoInput
    /\ made' = NilRef
    /\ err' = NoErr
    /\ UNCHANGED <<heap, alloc>>

Next ==
    \/ \E r \in Refs, minPort \in PortValues, maxPort \in PortValues,
          proto \in ProtoInputs : DoNew(r, minPort, maxPort, proto)
    \/ \E p \in Refs : DoValidate(p)
    \/ \E p \in Refs, o \in Refs : DoOverlaps(p, o)
    \/ \E p \in Refs, o \in Refs : DoAdjacent(p, o)
    \/ \E p \in Refs, o \in Refs : DoOverlap(p, o)
    \/ \E p \in Refs, o \in Refs : DoMergeWith(p, o)
    \/ \E p \in Refs, o \in Refs : DoEntirelyLessThan(p, o)

\* Every range is made by New.
Spec == Init /\ [][Next]_vars

\* Ranges may also be struct literals with any field values.
SpecLiteral == InitLiteral /\ [][Next]_vars

(***************************************************************************)
(* Vocabulary of the properties: intervals of integers, stated without     *)
(* the functions above and in unbounded integer arithmetic.                *)
(***************************************************************************)
MinOf(x, y) == IF x < y THEN x ELSE y
MaxOf(x, y) == IF x > y THEN x ELSE y

BoundsGood(minPort, maxPort) == minPort # 0 /\ maxPort # 0 /\ minPort <= maxPort
ProtoGood(proto) == proto = ProtoTcp \/ proto = ProtoUdp
IsValid(r) == BoundsGood(r.minPort, r.maxPort) /\ ProtoGood(r.proto)

\* x is a port of r.
InRange(x, r) == r.minPort <= x /\ x <= r.maxPort

\* Every endpoint a range of the model can have, and its two neighbours: two
\* unions or intersections of such ranges that agree on these agree everywhere.
ProbePorts == PortValues \cup {v + 1 : v \in PortValues} \cup {v - 1 : v \in PortValues}

SharePort(A, B) ==
    A.proto = B.proto /\ \E x \in ProbePorts : InRange(x, A) /\ InRange(x, B)
Touch(A, B) ==
    A.proto = B.proto /\ (A.maxPort + 1 = B.minPort \/ B.maxPort + 1 = A.minPort)

IsMutator == op = "Overlap" \/ op = "MergeWith"

(***************************************************************************)
(* C1.  New(minPort, maxPort, proto) succeeds, with a range of exactly     *)
(* those fields and a nil error, iff both ports are non-zero, minPort <=   *)
(* maxPort and proto is 6 or 17.  Otherwise it returns no range and        *)
(* ErrBadRange when the bounds are bad (whatever the protocol), and        *)
(* ErrBadProto only when the bounds are good and the protocol is not.      *)
(* Validate on an existing value gives the same verdict.                   *)
(***************************************************************************)
Verdict(minPort, maxPort, proto) ==
    IF ~BoundsGood(minPort, maxPort) THEN ErrBadRange
    ELSE IF ~ProtoGood(proto) THEN ErrBadProto
    ELSE NoErr

C2_MergeWith ==
    op = "MergeWith" =>
      LET S == old[recv]
          D == old[arg]
          D2 == heap[arg]
      IN  /\ heap[recv] = S
          /\ \A r \in Refs \ {arg} : heap[r] = old[r]
          /\ IF ~SharePort(S, D) /\ ~Touch(S, D)
             THEN err = ErrDisjointRanges /\ D2 = D
             ELSE /\ err = NoErr
                  /\ D2.minPort = MinOf(S.minPort, D.minPort)
                  /\ D2.maxPort = MaxOf(S.maxPort, D.maxPort)
                  /\ D2.proto = D.proto
                  /\ \A x \in ProbePorts :
                       InRange(x, D2) <=> (InRange(x, S) \/ InRange(x, D))

\* A merge of two adjacent, non-overlapping ranges that widened D.
C2_Witness ==
    /\ op = "MergeWith"
    /\ err = NoErr
    /\ recv # arg
    /\ ~SharePort(old[recv], old[arg])
    /\ heap[arg] # old[arg]

(***************************************************************************)
(* C3.  S.Overlap(D) on valid ranges: when S.Overlaps(D) is false          *)
(* (different protocols, or no common port, adjacent ranges included) it   *)
(* returns ErrDisjointRanges and leaves D unchanged; otherwise it returns  *)
(* nil, D.minPort = max of the two minPorts, D.maxPort = min of the two    *)
(* maxPorts, D.proto is unchanged, and the ports of D are exactly the      *)
(* intersection of the old ports of S and D.  S is unchanged in both       *)
(* outcomes.                                                               *)
(***************************************************************************)
C3_Overlap ==
    op = "Overlap" =>
      LET S == old[recv]
          D == old[arg]
          D2 == heap[arg]
      IN  /\ heap[recv] = S
          /\ \A r \in Refs \ {arg} : heap[r] = old[r]
          /\ IF ~SharePort(S, D)
             THEN err = ErrDisjointRanges /\ D2 = D
             ELSE /\ err = NoErr
                  /\ D2.minPort = MaxOf(S.minPort, D.minPort)
                  /\ D2.maxPort = MinOf(S.maxPort, D.maxPort)
                  /\ D2.proto = D.proto
                  /\ \A x \in ProbePorts :
                       InRange(x, D2) <=> (InRange(x, S) /\ InRange(x, D))

\* An intersection that cut D down at both ends.
C3_Witness ==
    /\ op = "Overlap"
    /\ err = NoErr
    /\ heap[arg].minPort > old[arg].minPort
    /\ heap[arg].maxPort < old[arg].maxPort

(***************************************************************************)
(* C4.  Adjacent does not wrap around at the top of the port space: for    *)
(* ranges A, B of the same protocol, built with or without New, if         *)
(* A.maxPort = 65535 then A.Adjacent(B) and B.Adjacent(A) are true only    *)
(* if B.maxPort + 1 = A.minPort in unbounded integers.                     *)
(***************************************************************************)
C4_AdjacentNoWrap ==
    (op = "Adjacent" /\ ret /\ old[recv].proto = old[arg].proto) =>
      /\ old[recv].maxPort = MaxPort => old[arg].maxPort + 1 = old[recv].minPort
      /\ old[arg].maxPort = MaxPort => old[recv].maxPort + 1 = old[arg].minPort

(***************************************************************************)
(* C5.  All ports of the lower-numbered protocol sort before all ports of  *)
(* the higher-numbered one: for valid ranges P, O with P.proto < O.proto,  *)
(* P.EntirelyLessThan(O) is true and O.EntirelyLessThan(P) is false, so    *)
(* that EntirelyLessThan never holds in both directions.                   *)
(***************************************************************************)
C5_ProtoOrder ==
    /\ op = "EntirelyLessThan" =>
         /\ old[recv].proto < old[arg].proto => ret
         /\ old[arg].proto < old[recv].proto => ~ret
    /\ \A p \in alloc, o \in alloc :
         ~(EntirelyLessThan(heap[p], heap[o]) /\ EntirelyLessThan(heap[o], heap[p]))

C7_Adjacent ==
    op = "Adjacent" =>
      LET A == old[recv]
          B == old[arg]
      IN  /\ ret <=> (A.proto = B.proto /\ ~SharePort(A, B) /\ Touch(A, B))
          /\ A.proto # B.proto => ~ret
          /\ ret => ~Overlaps(A, B)
          /\ (A.maxPort + 1 < B.minPort \/ B.maxPort + 1 < A.minPort) => ~ret

\* Adjacent answered true, the receiver being the upper range.
C7_Witness ==
    /\ op = "Adjacent"
    /\ ret
    /\ old[arg].maxPort + 1 = old[recv].minPort

(***************************************************************************)
(* C8.  A.Overlaps(B) on valid ranges is true iff A.proto = B.proto and    *)
(* the closed intervals share at least one port, that is, neither          *)
(* A.minPort > B.maxPort nor B.minPort > A.maxPort.  Ranges of different   *)
(* protocols never overlap.                                                *)
(***************************************************************************)
C8_Overlaps ==
    op = "Overlaps" =>
      LET A == old[recv]
          B == old[arg]
      IN  /\ ret <=> SharePort(A, B)
          /\ ret <=> (A.proto = B.proto /\ ~(A.minPort > B.maxPort)
                                         /\ ~(B.minPort > A.maxPort))
          /\ A.proto # B.proto => ~ret

\* Two different ranges that share exactly one port.
C8_Witness ==
    /\ op = "Overlaps"
    /\ ret
    /\ old[recv] # old[arg]
    /\ old[recv].maxPort = old[arg].minPort

(***************************************************************************)
(* C9.  Overlaps and Adjacent are symmetric for all PortRange values,      *)
(* validated or not: A.Overlaps(B) = B.Overlaps(A) and A.Adjacent(B) =     *)
(* B.Adjacent(A), and neither call changes A or B.                         *)
(***************************************************************************)
C9_Symmetric ==
    /\ op = "Overlaps" => (ret = Overlaps(old[arg], old[recv]) /\ heap = old)
    /\ op = "Adjacent" => (ret = Adjacent(old[arg], old[recv]) /\ heap = old)

\* Adjacent answered true for a receiver that would not pass Validate.
C9_Witness ==
    /\ op = "Adjacent"
    /\ ret
    /\ ~IsValid(old[recv])
    /\ old[recv].minPort > old[arg].maxPort

(***************************************************************************)
(* C10.  Ranges made by New stay valid under any sequence of Overlap and   *)
(* MergeWith calls, in any pairing (a range with itself included),         *)
(* successful or not: every range passes Validate, that is, both ports     *)
(* are non-zero, minPort <= maxPort, and proto is the TCP or UDP value it  *)
(* was created with.                                                       *)
(***************************************************************************)
C10_ValidityPreserved ==
    /\ \A r \in alloc : Validate(heap[r]) = NoErr /\ IsValid(heap[r])
    /\ IsMutator => \A r \in Refs : heap[r].proto = old[r].proto

\* A mutation changed its destination and a range now spans ports 1..65535.
C10_Witness ==
    /\ IsMutator
    /\ err = NoErr
    /\ heap[arg] # old[arg]
    /\ \E r \in alloc : heap[r].minPort = 1 /\ heap[r].maxPort = MaxPort

====
